---- MODULE Spec2Model ----
(***************************************************************************)
(* Model of the echo-chess solver (src/src/main.rs).                       *)
(*                                                                         *)
(* A u64 SquareSet is modelled as the set of its set bits (a subset of     *)
(* 0..63), a u32 PuzzleState as the set of its set bits (a subset of       *)
(* 0..31).  Shifts drop the bits that leave the word, as the machine       *)
(* shifts do.  Option<T> is modelled as a sequence of at most one element: *)
(* None is <<>> and Some(x) is <<x>>; the Option<PieceType> entries of the *)
(* puzzle tables use the string "None" beside the kind names.              *)
(***************************************************************************)
EXTENDS Integers, Sequences, FiniteSets, TLC

VARIABLES
    p,              \* solve / next_states: the Puzzle (immutable once built)
    predecessors,   \* solve: HashMap<PuzzleState, PuzzleState>
    frontier,       \* solve: HashSet<PuzzleState>
    new_frontier,   \* solve: HashSet<PuzzleState>
    pending,        \* solve: states of `frontier` the for loop has not visited yet
    result,         \* solve: the returned Option<Vec<u32>>
    run,            \* which call of solve on this puzzle is running (1 or 2)
    first_result,   \* what the first call of solve returned
    cur,            \* transition walk: the current PuzzleState
    emitted,        \* transition walk: what next_states passed to `consume`, in order
    cin,            \* captures: its arguments [S, from, obstacles, targets]
    reachable,      \* captures: the local `reachable`
    iters,          \* captures: number of loop iterations begun
    cresult,        \* captures: the returned SquareSet
    level,          \* solve: number of completed iterations of the outer loop
    fen,            \* from_compound_fen: its argument, a sequence of characters
    build,          \* from_compound_fen: "debug" (overflow checks) or "release"
    steps,          \* Stepper: [S, from] and its results [move, capture]
    pc              \* position of the running function

vars == <<p, predecessors, frontier, new_frontier, pending, result, run,
          first_result, cur, emitted, cin, reachable, iters, cresult, level,
          fen, build, steps, pc>>

None == <<>>
Some(x) == <<x>>

\* ------------------------------------------------------------------------
\* Bounds of the model
\* ------------------------------------------------------------------------
MaxPieces == 3      \* pieces of a generated puzzle
MaxObstacles == 1   \* extra obstacle squares of a generated puzzle / captures input
MaxFrom == 1        \* squares of a generated `from` set
MaxFenLen == 2      \* characters of a generated board text
MaxCrowd == 34      \* pieces of a crowded board text
MaxStepExtra == 1   \* further squares of a generated Stepper start set
MaxTargets == 2     \* squares of a generated `targets` set

\* ------------------------------------------------------------------------
\* Board-set algebra (SquareSet and its operator overloads)
\* ------------------------------------------------------------------------
Squares == 0..63
Word32 == 0..31

BitAnd(a, b) == a \cap b
BitOr(a, b) == a \cup b
Not(a) == Squares \ a
Shl(a, n) == {s + n : s \in a} \cap Squares
Shr(a, n) == {s - n : s \in a} \cap Squares

\* The set bits of a byte, and of the u64 made of that byte repeated 8 times
\* (0x0101010101010101 is the byte 0x01 repeated, and so on).
ByteBits(b) == {i \in 0..7 : (b \div (2 ^ i)) % 2 = 1}
RepeatByte(b) == {8 * k + i : k \in 0..7, i \in ByteBits(b)}

LEFT == Not(RepeatByte(1))
RIGHT == Not(RepeatByte(128))
TWO_LEFT == Not(RepeatByte(3))
TWO_RIGHT == Not(RepeatByte(192))

\* ------------------------------------------------------------------------
\* Piece movement model (impl Stepper for ...)
\* ------------------------------------------------------------------------
PieceType == {"Pawn", "Bishop", "Rook", "Monarch", "Knight"}

Pawn_move_steps(from) == Shl(from, 8)
Pawn_capture_steps(from) ==
    BitOr(Shl(BitAnd(from, LEFT), 7), Shl(BitAnd(from, RIGHT), 9))

Bishop_move_steps(from) ==
    LET left == BitAnd(from, LEFT)
        right == BitAnd(from, RIGHT)
    IN BitOr(BitOr(Shr(left, 9), Shr(right, 7)), BitOr(Shl(left, 7), Shl(right, 9)))

\* Mutant of Rook_move_steps: the step to the right is missing.
Rook_move_steps_NoRight(from) ==
    BitOr(BitOr(Shr(from, 8), Shr(BitAnd(from, LEFT), 1)), Shl(from, 8))

Rook_move_steps(from) ==
    BitOr(BitOr(Shr(from, 8), Shr(BitAnd(from, LEFT), 1)),
          BitOr(Shl(BitAnd(from, RIGHT), 1), Shl(from, 8)))

Monarch_move_steps(from) == BitOr(Rook_move_steps(from), Bishop_move_steps(from))

\* Mutant of Knight_move_steps: the two-file jumps to the left are masked as
\* one-file jumps.
Knight_move_steps_OneFileMask(from) ==
    LET left1 == BitAnd(from, LEFT)
        left2 == BitAnd(from, LEFT)
        right1 == BitAnd(from, RIGHT)
        right2 == BitAnd(from, TWO_RIGHT)
    IN UNION {Shr(left1, 17), Shr(right1, 15), Shr(left2, 10), Shr(right2, 6),
              Shl(left2, 6), Shl(right2, 10), Shl(left1, 15), Shl(right1, 17)}

Knight_move_steps(from) ==
    LET left1 == BitAnd(from, LEFT)
        left2 == BitAnd(from, TWO_LEFT)
        right1 == BitAnd(from, RIGHT)
        right2 == BitAnd(from, TWO_RIGHT)
    IN UNION {Shr(left1, 17), Shr(right1, 15), Shr(left2, 10), Shr(right2, 6),
              Shl(left2, 6), Shl(right2, 10), Shl(left1, 15), Shl(right1, 17)}

\* S::move_steps and S::capture_steps, dispatched on the piece type S.
move_steps(S, from) ==
    CASE S = "Pawn" -> Pawn_move_steps(from)
      [] S = "Bishop" -> Bishop_move_steps(from)
      [] S = "Rook" -> Rook_move_steps(from)
      [] S = "Monarch" -> Monarch_move_steps(from)
      [] S = "Knight" -> Knight_move_steps(from)

capture_steps(S, from) ==
    IF S = "Pawn" THEN Pawn_capture_steps(from) ELSE move_steps(S, from)

\* ------------------------------------------------------------------------
\* Reachability / capture engine (fn captures)
\* ------------------------------------------------------------------------
\* Mutant of Permeable: target squares can be slid through.
PermeableThroughTargets(obstacles, targets) == Not(obstacles)

\* Mutant of Permeable: exclusive or in place of `|`.
PermeableXor(obstacles, targets) ==
    Not((obstacles \ targets) \cup (targets \ obstacles))

Permeable(obstacles, targets) == Not(BitOr(obstacles, targets))

\* Mutant of LoopNext: the new squares are not masked by `permeable`.
LoopNextUnmasked(S, reach, permeable) == BitOr(reach, move_steps(S, reach))

\* `next` of one iteration of the loop.
LoopNext(S, reach, permeable) ==
    BitAnd(BitOr(reach, move_steps(S, reach)), permeable)

\* Mutant of ReachLoop: no move step is taken before the capture step.
ReachLoopNoSlide(S, reach, permeable) == reach

\* The loop: `if next == reachable { break; } reachable = next;`
RECURSIVE ReachLoop(_, _, _)
LoopTest(S, reach, next, permeable) ==
    IF next = reach THEN reach ELSE ReachLoop(S, next, permeable)
ReachLoop(S, reach, permeable) ==
    LoopTest(S, reach, LoopNext(S, reach, permeable), permeable)

CaptureResult(S, reach, targets) == BitAnd(capture_steps(S, reach), targets)

CapturesIn(S, from, permeable, targets) ==
    CaptureResult(S, ReachLoop(S, BitAnd(from, permeable), permeable), targets)

captures(S, from, obstacles, targets) ==
    CapturesIn(S, from, Permeable(obstacles, targets), targets)

\* ------------------------------------------------------------------------
\* Puzzle model (struct Puzzle, built by the second half of from_compound_fen)
\* ------------------------------------------------------------------------
Absent == 255       \* the 0xff sentinel of piece_locs / pieces_by_loc / player_start
PieceSlots == 0..31 \* index range of piece_types and piece_locs

Min(S) == CHOOSE x \in S : \A y \in S : x <= y

\* Ascending enumeration of a set of numbers.
RECURSIVE Ascending(_)
Ascending(S) ==
    IF S = {} THEN <<>>
    ELSE <<Min(S)>> \o Ascending({x \in S : \E y \in S : y < x})

\* The squares of piece_types_by_loc that hold a piece.
OccupiedLocs(piece_types_by_loc) ==
    {loc \in Squares : piece_types_by_loc[loc] # "None"}

\* The value of the counter piece_idx when the enumerate() loop is at `loc`:
\* the number of pieces on earlier squares (locs: the occupied squares in
\* loop order).
PieceIdxAtCountsSelf(locs, loc) ==
    Cardinality({k \in 1..Len(locs) : locs[k] <= loc})
PieceIdxAt(locs, loc) == Cardinality({k \in 1..Len(locs) : locs[k] < loc})

\* Lines 341..361, given the occupied squares in the order the loop meets
\* them; for a table with at most 32 pieces.
PuzzleFrom(obstacles, piece_types_by_loc, player_loc, locs) ==
    [obstacles |-> obstacles,
     piece_types |-> [i \in PieceSlots |->
                        IF i < Len(locs) THEN piece_types_by_loc[locs[i + 1]]
                        ELSE "None"],
     piece_locs |-> [i \in PieceSlots |->
                        IF i < Len(locs) THEN locs[i + 1] ELSE Absent],
     pieces_by_loc |-> [loc \in Squares |->
                        IF piece_types_by_loc[loc] # "None"
                        THEN PieceIdxAt(locs, loc) ELSE Absent],
     player_start |-> IF piece_types_by_loc[player_loc] # "None"
                      THEN PieceIdxAt(locs, player_loc) ELSE Absent]

BuildPuzzle(obstacles, piece_types_by_loc, player_loc) ==
    PuzzleFrom(obstacles, piece_types_by_loc, player_loc,
               Ascending(OccupiedLocs(piece_types_by_loc)))

\* ------------------------------------------------------------------------
\* Progress state (struct PuzzleState(u32))
\* ------------------------------------------------------------------------
BitAnd32(a, b) == a \cap b
BitOr32(a, b) == a \cup b
Not32(a) == Word32 \ a
Shl32(a, n) == {b + n : b \in a} \cap Word32
Shr32(a, n) == {b - n : b \in a} \cap Word32

\* The u32 holding the number n (n < 2^31), and the number a u32 holds.
U32(n) == {b \in 0..30 : (n \div (2 ^ b)) % 2 = 1}
RECURSIVE ValueOf(_)
ValueOf(bits) ==
    IF bits = {} THEN 0
    ELSE (2 ^ Min(bits)) + ValueOf({b \in bits : \E c \in bits : c < b})

\* (1 << n) - 1 on u32, for n < 32.
LowMask(n) == {b \in Word32 : b < n}

\* 0x07ffffff
RemainingMask == LowMask(27)

\* p.piece_locs.iter().take_while(|z| **z != 0xff).count()
NumPieces(pz) ==
    IF \A i \in PieceSlots : pz.piece_locs[i] # Absent THEN 32
    ELSE Min({i \in PieceSlots : pz.piece_locs[i] = Absent})

initial(pz) ==
    LET num_pieces == NumPieces(pz)
        to_capture == BitAnd32(LowMask(num_pieces),
                               Not32(Shl32(U32(1), pz.player_start)))
    IN BitOr32(to_capture, Shl32(U32(pz.player_start), 27))

current_piece_idx(s) == ValueOf(Shr32(s, 27))
remaining_captures(s) == BitAnd32(s, RemainingMask)
done(s) == remaining_captures(s) = {}

\* Enumeration of a bit set from its lowest bit up: trailing_zeros and
\* x &= x - 1.
BitsAscending(bits) == Ascending(bits)

\* ------------------------------------------------------------------------
\* State transition function (PuzzleState::next_states)
\* ------------------------------------------------------------------------
\* The `targets` block: the squares of the pieces still to capture.
TargetsOf(pz, s) == {pz.piece_locs[i] : i \in remaining_captures(s)}

\* Mutant of NewState: the captured piece's bit is not cleared.
NewStateBitKept(pz, s, i) ==
    BitOr32(remaining_captures(s), Shl32(U32(pz.pieces_by_loc[i]), 27))

\* Mutant of NewState: the square, not the piece index, goes in hand.
NewStateSquareInHand(pz, s, i) ==
    LET piece_idx == pz.pieces_by_loc[i]
        new_captures == BitAnd32(remaining_captures(s), Not32(Shl32(U32(1), piece_idx)))
    IN BitOr32(new_captures, Shl32(U32(i), 27))

\* The successor built for the capturable square i.
NewState(pz, s, i) ==
    LET piece_idx == pz.pieces_by_loc[i]
        new_captures == BitAnd32(remaining_captures(s), Not32(Shl32(U32(1), piece_idx)))
    IN BitOr32(new_captures, Shl32(U32(piece_idx), 27))

\* The sequence of states passed to `consume`, in call order.  Only defined
\* where the in-hand piece exists (the None arm panics).
\* Mutant of StatesFor: the lowest capturable square is skipped.
StatesForSkipFirst(pz, s, order) ==
    [k \in 1..(Len(order) - 1) |-> NewState(pz, s, order[k + 1])]

StatesFor(pz, s, order) == [k \in 1..Len(order) |-> NewState(pz, s, order[k])]

CapturesOf(pz, s, player_idx) ==
    captures(pz.piece_types[player_idx], {pz.piece_locs[player_idx]},
             pz.obstacles, TargetsOf(pz, s))

next_states(pz, s) ==
    StatesFor(pz, s, BitsAscending(CapturesOf(pz, s, current_piece_idx(s))))

\* ------------------------------------------------------------------------
\* Solver (fn solve)
\* ------------------------------------------------------------------------
EmptyMap == [s \in {} |-> s]

\* The closure passed to next_states, applied to one successor.
\* Mutant of Consume: the expanded state, not its successor, joins the next
\* frontier.
ConsumeInsertsPrev(acc, prev, next) ==
    [predecessors |->
        IF next \in DOMAIN acc.predecessors THEN acc.predecessors
        ELSE [s \in DOMAIN acc.predecessors \cup {next} |->
                 IF s = next THEN prev ELSE acc.predecessors[s]],
     new_frontier |->
        IF next \in DOMAIN acc.predecessors THEN acc.new_frontier
        ELSE acc.new_frontier \cup {prev},
     done |-> IF done(next) THEN Some(next) ELSE acc.done]

\* Mutant of Consume: a later discovery replaces the recorded predecessor.
ConsumeOverwrites(acc, prev, next) ==
    [predecessors |->
        [s \in DOMAIN acc.predecessors \cup {next} |->
            IF s = next THEN prev ELSE acc.predecessors[s]],
     new_frontier |->
        IF next \in DOMAIN acc.predecessors THEN acc.new_frontier
        ELSE acc.new_frontier \cup {next},
     done |-> IF done(next) THEN Some(next) ELSE acc.done]

Consume(acc, prev, next) ==
    [predecessors |->
        IF next \in DOMAIN acc.predecessors THEN acc.predecessors
        ELSE [s \in DOMAIN acc.predecessors \cup {next} |->
                 IF s = next THEN prev ELSE acc.predecessors[s]],
     new_frontier |->
        IF next \in DOMAIN acc.predecessors THEN acc.new_frontier
        ELSE acc.new_frontier \cup {next},
     done |-> IF done(next) THEN Some(next) ELSE acc.done]

RECURSIVE ConsumeFrom(_, _, _, _)
ConsumeFrom(acc, prev, succs, k) ==
    IF k > Len(succs) THEN acc
    ELSE ConsumeFrom(Consume(acc, prev, succs[k]), prev, succs, k + 1)

\* The "unwind" block.
RECURSIVE UnwindLoop(_, _, _)
UnwindLoop(preds, current, res) ==
    IF current \in DOMAIN preds
    THEN UnwindLoop(preds, preds[current], Append(res, current_piece_idx(current)))
    ELSE res

Reverse(s) == [k \in 1..Len(s) |-> s[Len(s) + 1 - k]]

\* Mutant of Unwind: the list is not reversed.
UnwindNotReversed(preds, final_state) == UnwindLoop(preds, final_state, <<>>)

Unwind(preds, final_state) == Reverse(UnwindLoop(preds, final_state, <<>>))

\* Mutant of AfterExpansion: a state that discovers nothing while the next
\* frontier is still empty ends the search with None.
AfterExpansionGivesUp(acc) ==
    [predecessors |-> acc.predecessors,
     new_frontier |-> acc.new_frontier,
     ret |-> IF acc.done # None
             THEN Some(Some(Unwind(acc.predecessors, acc.done[1])))
             ELSE IF acc.new_frontier = {} THEN Some(None) ELSE None]

\* What one iteration of `for &prev in frontier.iter()` leaves, given the
\* maps and `done` after the call of next_states: `ret` is the value returned
\* from inside the loop (None: the loop goes on).
AfterExpansion(acc) ==
    [predecessors |-> acc.predecessors,
     new_frontier |-> acc.new_frontier,
     ret |-> IF acc.done # None
             THEN Some(Some(Unwind(acc.predecessors, acc.done[1])))
             ELSE None]

\* One iteration of `for &prev in frontier.iter()`.
ForBody(pz, preds, nf, prev) ==
    AfterExpansion(
        ConsumeFrom([predecessors |-> preds, new_frontier |-> nf, done |-> None],
                    prev, next_states(pz, prev), 1))

\* Mutant of SwapFrontiers: the frontier is cleared and the swap is missing.
SwapFrontiersNoSwap(f, nf) == [frontier |-> {}, new_frontier |-> nf]

\* frontier.clear(); std::mem::swap(&mut frontier, &mut new_frontier)
SwapFrontiers(f, nf) == [frontier |-> nf, new_frontier |-> {}]

\* ------------------------------------------------------------------------
\* The puzzles and the captures inputs the model runs on
\* ------------------------------------------------------------------------
\* Generated puzzles put their pieces on the corner block a1, b1, a2, b2 of
\* a board walled in by obstacles (as the board of main is walled in by X
\* squares), either right around that block or around the 3 x 3 room
\* a1..c3, with up to MaxObstacles more obstacles inside the block.
Box == {0, 1, 8, 9}
Room == {0, 1, 2, 8, 9, 10, 16, 17, 18}
BaseObstacles == {Squares \ Box, Squares \ Room}

TableOf(kinds) ==
    [loc \in Squares |-> IF loc \in DOMAIN kinds THEN kinds[loc] ELSE "None"]

\* A board description: the obstacle squares, the kind of the piece on each
\* occupied square, and the square of the player's piece.
Board(obstacles, kinds, player_loc) ==
    [obstacles |-> obstacles, kinds |-> kinds, player_loc |-> player_loc]

PuzzleOf(b) == BuildPuzzle(b.obstacles, TableOf(b.kinds), b.player_loc)

\* Each Pick... sets p to one puzzle of a family.
PickGenerated ==
    \E P \in {Q \in SUBSET Box : Cardinality(Q) \in 1..MaxPieces} :
    \E kinds \in [P -> PieceType], base \in BaseObstacles, player \in P :
    \E extra \in {E \in SUBSET (Box \ P) : Cardinality(E) <= MaxObstacles} :
        p = PuzzleOf(Board(base \cup extra, kinds, player))

\* The block full of pieces: four pieces, so that one progress state can be
\* reached from two different predecessors.
FullBoxKinds == {"Monarch", "Pawn", "Knight"}
PickFullBox ==
    \E base \in BaseObstacles, kinds \in [Box -> FullBoxKinds], player \in Box :
        p = PuzzleOf(Board(base, kinds, player))

\* Five pieces in the room: the smallest puzzles in which a state that is not
\* terminal is discovered from two states of one frontier.
FiveSquares == {0, 1, 2, 8, 9}
FiveKinds == {"Rook", "Pawn"}
PickFive ==
    \E kinds \in [FiveSquares -> FiveKinds], player \in FiveSquares :
        p = PuzzleOf(Board(Squares \ Room, kinds, player))

\* The scenarios of the specification's section 8.
ScenarioA == Board({}, (0 :> "Rook") @@ (56 :> "Pawn"), 0)
ScenarioB == Board({24}, (0 :> "Rook") @@ (56 :> "Pawn"), 0)
ScenarioC == Board({}, (28 :> "Knight") @@ (36 :> "Pawn"), 28)
PickScenario == \E b \in {ScenarioA, ScenarioB, ScenarioC} : p = PuzzleOf(b)

\* A player's Knight on s and a Pawn on t, for every pair of squares.
KnightBoard(s, t) == Board({}, (s :> "Knight") @@ (t :> "Pawn"), s)
PickKnight ==
    \E s \in Squares : \E t \in Squares \ {s} : p = PuzzleOf(KnightBoard(s, t))

PickSolverPuzzle == PickGenerated \/ PickFullBox \/ PickScenario

IdleSolve ==
    /\ predecessors = EmptyMap /\ frontier = {} /\ new_frontier = {}
    /\ pending = {} /\ result = None /\ run = 0 /\ first_result = None
    /\ level = 0
IdleWalk == cur = {} /\ emitted = <<>>
IdleCaptures ==
    /\ cin = [S |-> "Pawn", from |-> {}, obstacles |-> {}, targets |-> {}]
    /\ reachable = {} /\ iters = 0 /\ cresult = {}
IdleFen == fen = <<>> /\ build = "release"
IdleSteps == steps = [S |-> "Pawn", from |-> {}, move |-> None, capture |-> None]

\* ------------------------------------------------------------------------
\* Spec: solve, called on a puzzle, and called once more on the same puzzle
\* ------------------------------------------------------------------------
\* The state of solve after `frontier.insert(PuzzleState::initial(p))`.
SolveEntry(pz) ==
    /\ predecessors' = EmptyMap
    /\ frontier' = {initial(pz)}
    /\ new_frontier' = {}
    /\ pending' = {initial(pz)}
    /\ result' = None
    /\ level' = 0
    /\ pc' = "solve"

InitSolve ==
    /\ predecessors = EmptyMap
    /\ frontier = {initial(p)}
    /\ new_frontier = {}
    /\ pending = frontier
    /\ result = None
    /\ run = 1
    /\ first_result = None
    /\ level = 0
    /\ pc = "solve"
    /\ IdleWalk /\ IdleCaptures /\ IdleFen /\ IdleSteps

\* The for loop visits one more state of the frontier.  A HashSet iterates
\* in an order of its own, so any state not yet visited may come next.
ExpandState ==
    /\ pc = "solve"
    /\ \E prev \in pending :
        \E body \in {ForBody(p, predecessors, new_frontier, prev)} :
           /\ predecessors' = body.predecessors
           /\ new_frontier' = body.new_frontier
           /\ IF body.ret # None
              THEN /\ result' = body.ret[1]
                   /\ pc' = "returned"
                   /\ pending' = pending
              ELSE /\ pending' = pending \ {prev}
                   /\ UNCHANGED <<result, pc>>
    /\ UNCHANGED <<p, level, fen, build, steps, frontier, run, first_result,
                   cur, emitted, cin, reachable, iters, cresult>>

\* The for loop is over: clear, swap, and test the while condition again.
NextLevel ==
    /\ pc = "solve"
    /\ pending = {}
    /\ frontier # {}
    /\ LET sw == SwapFrontiers(frontier, new_frontier)
       IN /\ frontier' = sw.frontier
          /\ new_frontier' = sw.new_frontier
          /\ pending' = sw.frontier
    /\ level' = level + 1
    /\ UNCHANGED <<p, fen, build, steps, predecessors, result, run,
                   first_result, cur, emitted, cin, reachable, iters,
                   cresult, pc>>

\* `while !frontier.is_empty()` fails: solve returns None.
ReturnNone ==
    /\ pc = "solve"
    /\ frontier = {}
    /\ result' = None
    /\ pc' = "returned"
    /\ UNCHANGED <<p, level, fen, build, steps, predecessors, frontier,
                   new_frontier, pending, run, first_result, cur, emitted,
                   cin, reachable, iters, cresult>>

\* The caller calls solve on the same puzzle a second time.
SolveAgain ==
    /\ pc = "returned"
    /\ run = 1
    /\ run' = 2
    /\ first_result' = result
    /\ SolveEntry(p)
    /\ UNCHANGED <<p, fen, build, steps, cur, emitted, cin, reachable, iters,
                   cresult>>

Init == (PickSolverPuzzle \/ PickKnight \/ PickFive) /\ InitSolve

Next == ExpandState \/ NextLevel \/ ReturnNone

Spec == Init /\ [][Next]_vars

\* SpecTwice: the same, with the second call.
InitTwice == PickSolverPuzzle /\ InitSolve

NextTwice == ExpandState \/ NextLevel \/ ReturnNone \/ SolveAgain

SpecTwice == InitTwice /\ [][NextTwice]_vars

\* ------------------------------------------------------------------------
\* SpecWalk: a chain of captures, one next_states call after the other
\* ------------------------------------------------------------------------
InitWalk ==
    /\ PickSolverPuzzle
    /\ cur = initial(p)
    /\ emitted = <<>>
    /\ pc = "walk"
    /\ IdleSolve /\ IdleCaptures /\ IdleFen /\ IdleSteps

\* next_states(cur) runs and passes its successors to `consume`, or panics
\* with "no piece" when piece_types holds None at the in-hand index.
Enumerate ==
    /\ pc = "walk"
    /\ IF p.piece_types[current_piece_idx(cur)] = "None"
       THEN emitted' = <<>> /\ pc' = "no_piece"
       ELSE emitted' = next_states(p, cur) /\ pc' = "emitted"
    /\ UNCHANGED <<p, level, fen, build, steps, predecessors, frontier,
                   new_frontier, pending, result, run, first_result, cur,
                   cin, reachable, iters, cresult>>

\* The chain goes on with one of the successors.
Capture ==
    /\ pc = "emitted"
    /\ \E k \in 1..Len(emitted) : cur' = emitted[k]
    /\ emitted' = <<>>
    /\ pc' = "walk"
    /\ UNCHANGED <<p, level, fen, build, steps, predecessors, frontier,
                   new_frontier, pending, result, run, first_result, cin,
                   reachable, iters, cresult>>

NextWalk == Enumerate \/ Capture

SpecWalk == InitWalk /\ [][NextWalk]_vars

\* ------------------------------------------------------------------------
\* SpecCaptures: one call of captures, iteration by iteration
\* ------------------------------------------------------------------------
CapturesInput(S, from, obstacles, targets) ==
    [S |-> S, from |-> from, obstacles |-> obstacles, targets |-> targets]

\* Every square reachable from s by repeated sliding on an empty board.
SlideClosure(S, s) == ReachLoop(S, {s}, Squares)

\* Small from / obstacle / target sets in the corner block, on an open board
\* or with the board walled in around the block or around the room.
PickSmallInput ==
    \E S \in PieceType, base \in BaseObstacles \cup {{}} :
    \E from \in {F \in SUBSET Box : Cardinality(F) <= MaxFrom},
       extra \in {E \in SUBSET Box : Cardinality(E) <= MaxObstacles},
       targets \in {T \in SUBSET Box : Cardinality(T) <= MaxTargets} :
        cin = CapturesInput(S, from, base \cup extra, targets)

\* One start square on an empty board whose targets are all the squares the
\* piece can slide to, with and without the start square itself.
PickClosureInput ==
    \E S \in PieceType \ {"Pawn"}, s \in Squares, self \in BOOLEAN :
        cin = CapturesInput(S, {s}, {},
                            SlideClosure(S, s) \ (IF self THEN {} ELSE {s}))

\* A winding corridor from a1 to a8: the longest runs of the loop.
CorridorWalls == (8..14) \cup (25..31) \cup (40..46) \cup (57..63)
PickCorridorInput ==
    \E S \in PieceType, s \in {0, 7, 32}, targets \in {{}, {56}, {24, 56}} :
        cin = CapturesInput(S, {s}, CorridorWalls, targets)

\* The state on entry to the loop.
InitCaptures ==
    /\ PickSmallInput \/ PickClosureInput \/ PickCorridorInput
    /\ reachable = BitAnd(cin.from, Permeable(cin.obstacles, cin.targets))
    /\ iters = 0
    /\ cresult = {}
    /\ pc = "captures_loop"
    /\ p = PuzzleOf(ScenarioA)
    /\ IdleSolve /\ IdleWalk /\ IdleFen /\ IdleSteps

\* One iteration of the loop that does not break.
LoopIteration ==
    /\ pc = "captures_loop"
    /\ \E next \in {LoopNext(cin.S, reachable, Permeable(cin.obstacles, cin.targets))} :
        /\ next # reachable
        /\ reachable' = next
    /\ iters' = iters + 1
    /\ UNCHANGED <<p, level, fen, build, steps, predecessors, frontier,
                   new_frontier, pending, result, run, first_result, cur,
                   emitted, cin, cresult, pc>>

\* The iteration that breaks, and the return.
LoopBreak ==
    /\ pc = "captures_loop"
    /\ LoopNext(cin.S, reachable, Permeable(cin.obstacles, cin.targets)) = reachable
    /\ iters' = iters + 1
    /\ cresult' = CaptureResult(cin.S, reachable, cin.targets)
    /\ pc' = "captures_returned"
    /\ UNCHANGED <<p, level, fen, build, steps, predecessors, frontier,
                   new_frontier, pending, result, run, first_result, cur,
                   emitted, cin, reachable>>

NextCaptures == LoopIteration \/ LoopBreak

SpecCaptures == InitCaptures /\ [][NextCaptures]_vars

\* ------------------------------------------------------------------------
\* Reference notions the properties are stated with
\* ------------------------------------------------------------------------
Range(seq) == {seq[k] : k \in 1..Len(seq)}
NoDuplicates(seq) == \A i, j \in 1..Len(seq) : seq[i] = seq[j] => i = j

\* The puzzle state with remaining set `rem` (piece indices) and in-hand
\* piece i.
StateOf(rem, i) == rem \cup Shl32(U32(i), 27)

\* The states reachable from the states `todo` in zero or more transitions.
RECURSIVE ReachableFrom(_, _, _)
SuccessorsOf(pz, states) == UNION {Range(next_states(pz, s)) : s \in states}
GrowReachable(pz, seen, new) ==
    IF new = {} THEN seen ELSE ReachableFrom(pz, seen \cup new, new)
ReachableFrom(pz, seen, todo) ==
    GrowReachable(pz, seen, SuccessorsOf(pz, todo) \ seen)

\* The states reachable from the initial state in one or more transitions
\* (no transition leads back to the initial state: each clears a bit).
ReachableAfterInitial(pz) ==
    ReachableFrom(pz, {}, {initial(pz)})

\* ------------------------------------------------------------------------
\* Properties of solve (Spec)
\* ------------------------------------------------------------------------
\* The successor of st that captures piece c, if next_states enumerates it.
LegalCapture(pz, st, succs, c) ==
    /\ c \in remaining_captures(st)
    /\ \E k \in 1..Len(succs) :
        /\ current_piece_idx(succs[k]) = c
        /\ remaining_captures(succs[k]) = remaining_captures(st) \ {c}

RECURSIVE ReplayLegal(_, _, _, _)
ReplayLegal(pz, st, cs, j) ==
    IF j > Len(cs) THEN done(st)
    ELSE /\ LegalCapture(pz, st, next_states(pz, st), cs[j])
         /\ ReplayLegal(pz, StateOf(remaining_captures(st) \ {cs[j]}, cs[j]), cs, j + 1)

\* C1: a capture list returned by solve replays, from PuzzleState::initial,
\* as a legal capture chain: every capture is a successor enumerated by
\* next_states that clears exactly the captured piece's bit and takes that
\* piece in hand, and the state after the last capture is terminal.
C1_ReturnedListIsLegalChain ==
    (pc = "returned" /\ result # None) => ReplayLegal(p, initial(p), result[1], 1)

C1_Witness == pc = "returned" /\ result # None /\ Len(result[1]) >= 3

\* C2: when solve returns None, no terminal state is reachable from the
\* initial state in one or more transitions.
C2_NoneMeansNoTerminalReachable ==
    (pc = "returned" /\ result = None)
        => \A s \in ReachableAfterInitial(p) : ~done(s)

C2_Witness ==
    pc = "returned" /\ result = None /\ Cardinality(DOMAIN predecessors) >= 3

\* C3: for every solvable puzzle (a terminal state is reachable from the
\* initial state in zero or more transitions), solve returns a list whose
\* length is the number of pieces minus one; the puzzle with the player's
\* piece alone included.
Solvable(pz) ==
    done(initial(pz)) \/ \E s \in ReachableAfterInitial(pz) : done(s)

C3_SolvableReturnsAllCaptures ==
    (pc = "returned" /\ Solvable(p))
        => (result # None /\ Len(result[1]) = NumPieces(p) - 1)

PuzzleB == PuzzleOf(ScenarioB)
PuzzleC == PuzzleOf(ScenarioC)

\* C7 as stated: for the Rook on a1, the Pawn on a8 and the obstacle on a4,
\* solve returns None.
C7_ScenarioB_NoSolution ==
    (pc = "returned" /\ p = PuzzleB) => result = None

\* C7 as amended: for the Rook on a1, the Pawn on a8 and the obstacle on a4,
\* solve returns the list holding the pawn's piece index, 1: the rook slides
\* around the obstacle and captures from a7 or b8.
C7_ScenarioB_Solved ==
    (pc = "returned" /\ p = PuzzleB) => result = Some(<<1>>)

C7_Witness == pc = "returned" /\ p = PuzzleB /\ result # None

\* A puzzle of two pieces on a board without obstacles: the player's Knight
\* and a Pawn.
IsKnightPuzzle(pz) ==
    /\ pz.obstacles = {}
    /\ NumPieces(pz) = 2
    /\ pz.piece_types[pz.player_start] = "Knight"
    /\ pz.piece_types[1 - pz.player_start] = "Pawn"

\* C8: with no obstacles, a Knight on any square s captures a single target
\* on any other square t: captures({s}, {}, {t}) = {t}; and solve on the
\* puzzle of the Knight on s and a Pawn on t (e4 and e5 among them) returns
\* the list holding the pawn's piece index.
C8_KnightCapturesAnyTarget ==
    (pc = "returned" /\ IsKnightPuzzle(p))
        => /\ captures("Knight", {p.piece_locs[p.player_start]}, {},
                       {p.piece_locs[1 - p.player_start]})
                = {p.piece_locs[1 - p.player_start]}
           /\ result = Some(<<1 - p.player_start>>)

C8_Witness == pc = "returned" /\ p = PuzzleC /\ result = Some(<<1>>)

\* ------------------------------------------------------------------------
\* Properties of solve called twice (SpecTwice)
\* ------------------------------------------------------------------------
\* C10 as stated: two runs of solve on one puzzle return the same result,
\* whatever the order in which the frontier is iterated.
C10_SameResult ==
    (pc = "returned" /\ run = 2) => result = first_result

\* C10 as amended: two runs of solve on one puzzle both return None or both
\* return a list, and the two lists have the same length; they need not be
\* the same list.
C10_SameOutcome ==
    (pc = "returned" /\ run = 2)
        => /\ (result = None) = (first_result = None)
           /\ result # None => Len(result[1]) = Len(first_result[1])

C10_Witness ==
    pc = "returned" /\ run = 2 /\ result # None /\ first_result # None
    /\ result # first_result

\* ------------------------------------------------------------------------
\* Properties of next_states (SpecWalk)
\* ------------------------------------------------------------------------
\* The pieces still to capture whose square the in-hand piece can capture.
CapturablePieces(pz, s) ==
    {i \in remaining_captures(s) :
        pz.piece_locs[i] \in CapturesOf(pz, s, current_piece_idx(s))}

\* C5: next_states emits exactly the states (remaining mask with bit i
\* cleared, in-hand = i) for the remaining pieces i on a capturable square,
\* each once, one per capturable square.
C5_SuccessorsAreTheCaptures ==
    pc = "emitted"
        => /\ NoDuplicates(emitted)
           /\ Range(emitted) = {StateOf(remaining_captures(cur) \ {i}, i) :
                                   i \in CapturablePieces(p, cur)}
           /\ Len(emitted) = Cardinality(CapturesOf(p, cur, current_piece_idx(cur)))

C5_Witness == pc = "emitted" /\ Len(emitted) >= 2

\* C6: in every state of a capture chain, and in every successor emitted,
\* the bit of the in-hand piece is not set in the remaining mask.
InHandNotRemaining(s) == current_piece_idx(s) \notin remaining_captures(s)

C6_InHandBitClear ==
    /\ InHandNotRemaining(cur)
    /\ \A k \in 1..Len(emitted) : InHandNotRemaining(emitted[k])

C6_Witness ==
    pc = "walk" /\ cur # initial(p) /\ remaining_captures(cur) # {}

\* ------------------------------------------------------------------------
\* Properties of captures (SpecCaptures)
\* ------------------------------------------------------------------------
\* The moves of the kinds as board geometry: <<file offset, rank offset>>.
RookOffsets == {<<1, 0>>, <<-1, 0>>, <<0, 1>>, <<0, -1>>}
BishopOffsets == {<<1, 1>>, <<-1, 1>>, <<1, -1>>, <<-1, -1>>}
KnightOffsets == {<<1, 2>>, <<-1, 2>>, <<1, -2>>, <<-1, -2>>,
                  <<2, 1>>, <<-2, 1>>, <<2, -1>>, <<-2, -1>>}
MoveOffsets(S) ==
    CASE S = "Pawn" -> {<<0, 1>>}
      [] S = "Bishop" -> BishopOffsets
      [] S = "Rook" -> RookOffsets
      [] S = "Monarch" -> RookOffsets \cup BishopOffsets
      [] S = "Knight" -> KnightOffsets
CaptureOffsets(S) ==
    IF S = "Pawn" THEN {<<1, 1>>, <<-1, 1>>} ELSE MoveOffsets(S)

\* The squares one offset of `offsets` away from square s, on the board.
StepsFrom(offsets, s) ==
    {8 * ((s \div 8) + o[2]) + (s % 8) + o[1] :
        o \in {d \in offsets : /\ (s % 8) + d[1] \in 0..7
                               /\ (s \div 8) + d[2] \in 0..7}}

\* The squares some path s0, ..., sk ends on: s0 in `from`, each next square
\* one move step from the one before, every square of the path in `free`.
RECURSIVE PathEnds(_, _, _, _)
GrowPaths(S, seen, new, free) ==
    IF new = {} THEN seen ELSE PathEnds(S, seen \cup new, new, free)
PathEnds(S, seen, todo, free) ==
    GrowPaths(S, seen,
              ((UNION {StepsFrom(MoveOffsets(S), x) : x \in todo}) \cap free) \ seen,
              free)

PathCaptures(S, from, obstacles, targets) ==
    {t \in targets :
        \E e \in PathEnds(S, from \ (obstacles \cup targets), from \ (obstacles \cup targets),
                          Squares \ (obstacles \cup targets)) :
            t \in StepsFrom(CaptureOffsets(S), e)}

\* C4: captures returns exactly the target squares t for which a path
\* s0, ..., sk (k >= 0) exists with s0 in `from`, every si neither an
\* obstacle nor a target, each next square one move step of the kind from
\* the one before, and t one capture step of the kind from sk.
C4_CapturesAreThePathTargets ==
    pc = "captures_returned"
        => /\ cresult = PathCaptures(cin.S, cin.from, cin.obstacles, cin.targets)
           /\ captures(cin.S, cin.from, cin.obstacles, cin.targets) = cresult

C4_Witness ==
    /\ pc = "captures_returned"
    /\ iters >= 3
    /\ cresult # {}
    /\ cresult # cin.targets
    /\ cin.from \cap cin.obstacles = {}

\* The inputs of C9: one start square s, no obstacles, and the targets all
\* the squares the piece can reach from s by repeated sliding on an empty
\* board (s itself counted among them or not).
IsClosureInput(c) ==
    /\ c.S # "Pawn"
    /\ c.obstacles = {}
    /\ \E s \in c.from :
        /\ c.from = {s}
        /\ c.targets \cup {s} = SlideClosure(c.S, s)

\* C9 as stated: for Bishop, Rook, Monarch and Knight, with no obstacles and
\* the targets every square reachable from s by repeated sliding, captures
\* returns exactly that set.
C9_ClosureIsCaptured ==
    (pc = "captures_returned" /\ IsClosureInput(cin)) => cresult = cin.targets

\* C9 as amended: on those inputs captures returns exactly the targets one
\* step of the kind away from s, since a target square is never slid
\* through; and it returns nothing when s itself is among the targets.
C9_ClosureNeighboursCaptured ==
    (pc = "captures_returned" /\ IsClosureInput(cin))
        => \A s \in cin.from :
            cresult = IF s \in cin.targets THEN {}
                      ELSE StepsFrom(CaptureOffsets(cin.S), s) \cap cin.targets

C9_Witness ==
    /\ pc = "captures_returned"
    /\ IsClosureInput(cin)
    /\ cin.S = "Rook"
    /\ Cardinality(cresult) = 4
    /\ cresult # cin.targets

\* ------------------------------------------------------------------------
\* from_compound_fen: the text of a board to a Puzzle
\* ------------------------------------------------------------------------
\* A character is a string of length one, the text a sequence of them.
FenDigits == <<"0", "1", "2", "3", "4", "5", "6", "7", "8", "9">>
\* c as u32 - '0' as u32
DigitValue(c) == (CHOOSE i \in 1..Len(FenDigits) : FenDigits[i] = c) - 1
IsDigit(c) == \E i \in 1..Len(FenDigits) : FenDigits[i] = c
ObstacleChars == {"X", "x"}
PlayerChars == {"P", "B", "R", "K", "Q", "N"}
PieceChars == PlayerChars \cup {"p", "b", "r", "k", "q", "n"}
PieceOfChar(c) ==
    CASE c \in {"P", "p"} -> "Pawn"
      [] c \in {"B", "b"} -> "Bishop"
      [] c \in {"R", "r"} -> "Rook"
      [] c \in {"N", "n"} -> "Knight"
      [] c \in {"K", "k", "Q", "q"} -> "Monarch"

\* The locals of from_compound_fen before its first loop.  y and x are u32;
\* a value below 0 stands for the u32 it is congruent to modulo 2^32 (the
\* wrapped value of a release build).
ParseStart ==
    [obstacles |-> {},
     piece_types_by_loc |-> [loc \in Squares |-> "None"],
     player_loc |-> None,
     y |-> 7,
     x |-> 0,
     panicked |-> FALSE]

Panic(st) == [st EXCEPT !.panicked = TRUE]

\* let loc = (8 * y + x) as usize, up to a multiple of 2^32.
LocOf(st) == 8 * st.y + st.x

\* One iteration of `for c in fen.chars()`.  A debug build panics on the
\* u32 underflow of `y -= 1` and on a shift `1 << loc` by 64 or more; a
\* release build wraps the first and masks the shift amount to six bits.
\* Indexing piece_types_by_loc outside 0..63 panics in both.
ParseChar(st, c, bld, loc) ==
    IF st.panicked THEN st
    ELSE IF c = "/" THEN
        IF st.y = 0 /\ bld = "debug" THEN Panic(st)
        ELSE [st EXCEPT !.y = @ - 1, !.x = 0]
    ELSE IF IsDigit(c) THEN [st EXCEPT !.x = @ + DigitValue(c)]
    ELSE IF c \in ObstacleChars THEN
        IF loc \in Squares
        THEN [st EXCEPT !.obstacles = BitOr(@, {loc}), !.x = @ + 1]
        ELSE IF bld = "debug" THEN Panic(st)
        ELSE [st EXCEPT !.obstacles = BitOr(@, {loc % 64}), !.x = @ + 1]
    ELSE IF c \in PieceChars THEN
        IF loc \in Squares
        THEN [st EXCEPT !.piece_types_by_loc[loc] = PieceOfChar(c),
                        !.player_loc = IF c \in PlayerChars THEN Some(loc)
                                       ELSE @,
                        !.x = @ + 1]
        ELSE Panic(st)
    ELSE Panic(st)

RECURSIVE ParseChars(_, _, _, _)
ParseChars(st, text, i, bld) ==
    IF i > Len(text) THEN st
    ELSE ParseChars(ParseChar(st, text[i], bld, LocOf(st)), text, i + 1, bld)

\* After the loop: `expect("No player location")`, then the second loop,
\* which indexes the 32 slots of piece_types by piece_idx.
FinishParse(st) ==
    IF \/ st.panicked
       \/ st.player_loc = None
       \/ Cardinality(OccupiedLocs(st.piece_types_by_loc)) > Cardinality(PieceSlots)
    THEN [panicked |-> TRUE]
    ELSE [panicked |-> FALSE,
          puzzle |-> BuildPuzzle(st.obstacles, st.piece_types_by_loc,
                                 st.player_loc[1])]

from_compound_fen(text, bld) == FinishParse(ParseChars(ParseStart, text, 1, bld))

\* ------------------------------------------------------------------------
\* SpecFen: from_compound_fen called on a text
\* ------------------------------------------------------------------------
FenAlphabet ==
    {"/"} \cup {FenDigits[i] : i \in 1..Len(FenDigits)} \cup ObstacleChars
        \cup PieceChars \cup {" ", "w"}

\* A crowded board of n pieces: the player's rook on a8, then pawns, eight
\* to a rank.
CrowdedFen(n) ==
    [j \in 1..(n + ((n - 1) \div 8)) |->
        IF j % 9 = 0 THEN "/" ELSE IF j = 1 THEN "R" ELSE "p"]

Slashes(n) == [j \in 1..n |-> "/"]

PickShortFen ==
    \E n \in 0..MaxFenLen : \E text \in [1..n -> FenAlphabet] : fen = text
PickCrowdedFen == \E n \in 1..MaxCrowd : fen = CrowdedFen(n)
\* A second rank that is too long, and a text of more than eight ranks.
PickOverlongFen ==
    \E c \in FenAlphabet :
        \/ fen = <<"R", "/", "8", c>>
        \/ fen = <<"R">> \o Slashes(8) \o <<c>>
        \/ fen = <<"R">> \o Slashes(8) \o <<"8", c>>

InitFen ==
    /\ PickShortFen \/ PickCrowdedFen \/ PickOverlongFen
    /\ build \in {"debug", "release"}
    /\ p = None
    /\ pc = "fen"
    /\ IdleSolve /\ IdleWalk /\ IdleCaptures /\ IdleSteps

\* from_compound_fen returns a Puzzle.
ParseBuilt ==
    /\ pc = "fen"
    /\ \E out \in {from_compound_fen(fen, build)} :
          /\ ~out.panicked
          /\ p' = out.puzzle
    /\ pc' = "fen_built"
    /\ UNCHANGED <<level, fen, build, steps, predecessors, frontier,
                   new_frontier, pending, result, run, first_result, cur,
                   emitted, cin, reachable, iters, cresult>>

\* from_compound_fen panics: no Puzzle is produced.
ParsePanicked ==
    /\ pc = "fen"
    /\ from_compound_fen(fen, build).panicked
    /\ pc' = "fen_panicked"
    /\ UNCHANGED <<p, level, fen, build, steps, predecessors, frontier,
                   new_frontier, pending, result, run, first_result, cur,
                   emitted, cin, reachable, iters, cresult>>

NextFen == ParseBuilt \/ ParsePanicked
SpecFen == InitFen /\ [][NextFen]_vars

\* The number of characters of the text that satisfy `is`.
CountChars(text, chars) == Cardinality({i \in 1..Len(text) : text[i] \in chars})

\* ------------------------------------------------------------------------
\* C11: for every text with 28 or more pieces, from_compound_fen aborts and
\* no Puzzle is produced.
\* ------------------------------------------------------------------------
C11_MoreThan27PiecesAborts ==
    (pc \in {"fen_built", "fen_panicked"} /\ CountChars(fen, PieceChars) >= 28)
        => (pc = "fen_panicked" /\ p = None)

\* ------------------------------------------------------------------------
\* C12: from_compound_fen returns a Puzzle only if the text holds exactly one
\* of the player-marking letters P B R K Q N: it aborts with none of them
\* and aborts with more than one.
\* ------------------------------------------------------------------------
C12_ExactlyOnePlayerLetter ==
    /\ pc = "fen_built" => CountChars(fen, PlayerChars) = 1
    /\ (pc = "fen_panicked" \/ pc = "fen_built") /\ CountChars(fen, PlayerChars) = 0
          => pc = "fen_panicked"

\* ------------------------------------------------------------------------
\* C13: every Puzzle that from_compound_fen returns with n <= 27 pieces has
\* piece_types and piece_locs populated exactly on 0..n-1, piece_locs
\* strictly increasing, pieces_by_loc the inverse of piece_locs (the absent
\* sentinel on every other square), and player_start the index of the piece
\* on the player's square.
\* ------------------------------------------------------------------------
PopulatedSlots(pz) == {i \in PieceSlots : pz.piece_types[i] # "None"}

\* The square of the player's piece, as the first loop leaves it.
PlayerSquare(text, bld) == ParseChars(ParseStart, text, 1, bld).player_loc[1]

WellFormed(pz, n, player_square) ==
    /\ PopulatedSlots(pz) = 0..(n - 1)
    /\ \A i \in PieceSlots :
          IF i < n THEN pz.piece_locs[i] \in Squares
          ELSE pz.piece_locs[i] = Absent
    /\ \A i \in 0..(n - 1) : \A j \in 0..(n - 1) :
          i < j => pz.piece_locs[i] < pz.piece_locs[j]
    /\ \A i \in 0..(n - 1) : pz.pieces_by_loc[pz.piece_locs[i]] = i
    /\ \A loc \in Squares :
          (\A i \in 0..(n - 1) : pz.piece_locs[i] # loc)
              => pz.pieces_by_loc[loc] = Absent
    /\ pz.player_start \in 0..(n - 1)
    /\ pz.piece_locs[pz.player_start] = player_square

C13_BuiltPuzzleWellFormed ==
    (pc = "fen_built" /\ Cardinality(PopulatedSlots(p)) <= 27)
        => WellFormed(p, Cardinality(PopulatedSlots(p)), PlayerSquare(fen, build))

\* A Puzzle of several pieces whose player's piece is not the first.
C13_Witness ==
    /\ pc = "fen_built"
    /\ Cardinality(PopulatedSlots(p)) \in 2..27
    /\ p.player_start >= 1

\* ------------------------------------------------------------------------
\* C15: from_compound_fen aborts on every text that holds a character other
\* than '/', a digit 1 to 8, X or x, or a piece letter; no such character
\* is taken for empty squares.
\* ------------------------------------------------------------------------
AllowedChars ==
    {"/"} \cup {FenDigits[i + 1] : i \in 1..8} \cup ObstacleChars \cup PieceChars

C15_OtherCharactersAbort ==
    ((pc = "fen_panicked" \/ pc = "fen_built")
        /\ \E i \in 1..Len(fen) : fen[i] \notin AllowedChars)
            => pc = "fen_panicked"

\* ------------------------------------------------------------------------
\* C14: captures is monotone decreasing in its obstacles: if O1 is a subset
\* of O2 then captures(from, O2, targets) is a subset of
\* captures(from, O1, targets).
\* ------------------------------------------------------------------------
\* Subsets of an obstacle set: one square removed, the inside or the outside
\* of the corner block removed, every square removed.
FewerObstacles(O) ==
    {O \ {o} : o \in O} \cup {O \ Box, BitAnd(O, Box), {}}

C14_MonotoneInObstacles ==
    pc = "captures_returned"
        => \A O1 \in FewerObstacles(cin.obstacles) :
              cresult \subseteq captures(cin.S, cin.from, O1, cin.targets)

\* A call whose result is strictly smaller than the result with an obstacle
\* removed.
C14_Witness ==
    /\ pc = "captures_returned"
    /\ \E O1 \in FewerObstacles(cin.obstacles) :
          cresult # captures(cin.S, cin.from, O1, cin.targets)

\* ------------------------------------------------------------------------
\* C16: the search is level-synchronous.  During the k-th iteration
\* (k = 0, 1, ...) of solve's outer loop on a puzzle of n pieces every state
\* of the frontier has exactly n - 1 - k remaining bits, and every entry of
\* predecessors links a state to one with exactly one more remaining bit;
\* so the outer loop runs at most n times, and solve returns.
\* ------------------------------------------------------------------------
PopCount(s) == Cardinality(remaining_captures(s))

LevelSynchronous(n) ==
    /\ \A s \in frontier : PopCount(s) = n - 1 - level
    /\ \A s \in new_frontier : PopCount(s) = n - 2 - level
    /\ \A s \in DOMAIN predecessors :
          PopCount(predecessors[s]) = PopCount(s) + 1
    /\ level <= n
    /\ (pc = "solve" /\ frontier # {}) => level < n

\* A step of solve returns, or begins the next iteration of the outer loop,
\* or leaves the for loop one state fewer to visit: with `level` bounded by
\* n, no run of solve goes on for ever.
Progresses ==
    \/ pc' = "returned"
    \/ level' = level + 1
    \/ level' = level /\ pending' \subseteq pending /\ pending' # pending

C16_LevelSynchronous ==
    /\ [](LevelSynchronous(NumPieces(p)))
    /\ [][pc = "solve" /\ Progresses]_vars

\* The outer loop has begun a later iteration with several states to visit.
C16_Witness ==
    /\ pc = "solve"
    /\ level >= 1
    /\ pending = frontier
    /\ Cardinality(frontier) >= 2
    /\ predecessors # EmptyMap

\* ------------------------------------------------------------------------
\* C17: a progress state enters a frontier at most once and is expanded at
\* most once.  A successor joins the next frontier only when it has no
\* entry in predecessors, the entry recorded at its first discovery is never
\* overwritten, and the initial state never gets an entry.
\* ------------------------------------------------------------------------
Discovered ==
    /\ initial(p) \notin DOMAIN predecessors
    /\ frontier \cup new_frontier \subseteq DOMAIN predecessors \cup {initial(p)}
    /\ pending \subseteq frontier

FirstDiscoveryKept ==
    /\ \A s \in DOMAIN predecessors :
          s \in DOMAIN predecessors' /\ predecessors'[s] = predecessors[s]
    /\ \A s \in new_frontier' \ new_frontier :
          s \notin DOMAIN predecessors /\ s # initial(p)
    /\ frontier' # frontier => frontier' = new_frontier /\ pending' = frontier'
    /\ frontier' = frontier => pending' \subseteq pending

C17_DiscoveredOnce ==
    /\ []Discovered
    /\ [][FirstDiscoveryKept]_vars

\* A state of the next frontier was emitted again by a second state of the
\* frontier, and still carries the predecessor of its first discovery.
C17_Witness ==
    /\ pc = "solve"
    /\ \E s \in new_frontier : \E b \in frontier \ pending :
          /\ b # predecessors[s]
          /\ predecessors[s] \in frontier \ pending
          /\ s \in Range(next_states(p, b))

\* ------------------------------------------------------------------------
\* SpecSteps: move_steps and capture_steps of a kind called on a square set
\* ------------------------------------------------------------------------
\* The start sets of test_steps.
TestStarts == {{0, 9, 18, 27, 36, 45, 54, 63}, {0, 36, 62}, {36}, {26, 62}}
\* Squares on the edges and in the middle of the board.
SampleSquares == {0, 7, 9, 14, 27, 36, 56, 63}

PickStepInput ==
    \E S \in PieceType, s \in Squares :
    \E extra \in {E \in SUBSET SampleSquares : Cardinality(E) <= MaxStepExtra} :
        steps = [S |-> S, from |-> {s} \cup extra, move |-> None, capture |-> None]
PickTestStart ==
    \E S \in PieceType, start \in TestStarts \cup {{}, Squares} :
        steps = [S |-> S, from |-> start, move |-> None, capture |-> None]

InitSteps ==
    /\ PickStepInput \/ PickTestStart
    /\ pc = "steps"
    /\ p = PuzzleOf(ScenarioA)
    /\ IdleSolve /\ IdleWalk /\ IdleCaptures /\ IdleFen

MoveSteps ==
    /\ pc = "steps"
    /\ steps.move = None
    /\ steps' = [steps EXCEPT !.move = Some(move_steps(steps.S, steps.from))]
    /\ UNCHANGED <<p, level, fen, build, predecessors, frontier, new_frontier,
                   pending, result, run, first_result, cur, emitted, cin,
                   reachable, iters, cresult, pc>>

CaptureSteps ==
    /\ pc = "steps"
    /\ steps.capture = None
    /\ steps' = [steps EXCEPT !.capture = Some(capture_steps(steps.S, steps.from))]
    /\ UNCHANGED <<p, level, fen, build, predecessors, frontier, new_frontier,
                   pending, result, run, first_result, cur, emitted, cin,
                   reachable, iters, cresult, pc>>

NextSteps == MoveSteps \/ CaptureSteps
SpecSteps == InitSteps /\ [][NextSteps]_vars

\* ------------------------------------------------------------------------
\* C18: no step wraps around a board edge.  For every kind and every single
\* square s, move_steps({s}) and capture_steps({s}) are exactly the squares
\* on the board at that kind's offsets from s, and for a set of squares the
\* result is the union of the results of its members.
\* ------------------------------------------------------------------------
OffsetSquares(offsets, from) == UNION {StepsFrom(offsets, s) : s \in from}

C18_StepsAreTheOffsetSquares ==
    /\ steps.move # None
          => steps.move[1] = OffsetSquares(MoveOffsets(steps.S), steps.from)
    /\ steps.capture # None
          => steps.capture[1] = OffsetSquares(CaptureOffsets(steps.S), steps.from)

\* Both results of a piece on the a file or the h file, where an offset
\* leaves the board.
C18_Witness ==
    /\ steps.move # None
    /\ steps.capture # None
    /\ \E s \in steps.from : s % 8 \in {0, 7}
    /\ Cardinality(steps.from) >= 2
    /\ steps.move[1] # {}

\* ------------------------------------------------------------------------
\* C19: the "no piece" panic of next_states is never reached.  In every
\* progress state reachable from the initial state of a built puzzle the
\* in-hand index is below the number of pieces, so piece_types holds a kind
\* there and piece_locs a board square.
\* ------------------------------------------------------------------------
InHandIsAPiece(pz, idx) ==
    /\ idx < NumPieces(pz)
    /\ pz.piece_types[idx] # "None"
    /\ pz.piece_locs[idx] \in Squares

C19_NoPieceUnreachable ==
    /\ pc # "no_piece"
    /\ InHandIsAPiece(p, current_piece_idx(cur))
    /\ \A k \in 1..Len(emitted) : InHandIsAPiece(p, current_piece_idx(emitted[k]))

\* next_states has run on a state later than the initial one and has emitted
\* successors.
C19_Witness ==
    /\ pc = "emitted"
    /\ cur # initial(p)
    /\ Len(emitted) >= 2

\* ------------------------------------------------------------------------
\* C20: the loop of captures ends after at most 64 iterations.  reachable
\* only grows, stays inside permeable, and the loop stops at the first
\* iteration that adds no square.
\* ------------------------------------------------------------------------
\* Every iteration but the last adds a square, so the iterations begun are
\* bounded by the squares reached.
IterationBound ==
    /\ reachable \subseteq Permeable(cin.obstacles, cin.targets)
    /\ iters <= (IF reachable = {} THEN 1 ELSE Cardinality(reachable))
    /\ iters <= 64

GrowsOrStops ==
    /\ reachable \subseteq reachable'
    /\ iters' = iters + 1
    /\ (pc' = "captures_loop") <=> (reachable' # reachable)
    /\ (pc' = "captures_returned") <=> (reachable' = reachable)
    /\ pc' = "captures_returned" =>
          LoopNext(cin.S, reachable', Permeable(cin.obstacles, cin.targets))
              = reachable'

C20_LoopTerminates ==
    /\ []IterationBound
    /\ [][pc = "captures_loop" /\ GrowsOrStops]_vars

\* A call whose loop ran thirty iterations or more before it stopped.
C20_Witness ==
    /\ pc = "captures_returned"
    /\ iters >= 30
    /\ Cardinality(reachable) >= 30

====
